---- MODULE Spec2Model ----
(***************************************************************************)
(* Model of the uptime monitor worker (src/src/index.ts).                  *)
(*                                                                         *)
(* checkSite is modelled at the granularity of its awaits: the fetch and   *)
(* every KV operation is one step, so that checks interleave where the     *)
(* JavaScript event loop lets them.  The KV namespace is a function from   *)
(* keys to stored values; a stored value is a text (JSON.stringify of an   *)
(* object, or a text that is not JSON) with its put options.               *)
(*                                                                         *)
(* Time is what Date.now() returns.  It advances between two checkSite     *)
(* calls (by the period of the trigger) and while a fetch is pending (by   *)
(* the latency of the answer, or by the timeout when the timer fires); the *)
(* KV operations are taken to cost no time.                                *)
(*                                                                         *)
(* Spec runs the checks of one site one after the other; SpecLive adds the *)
(* progress the runtime guarantees.  SpecCycle is one invocation of the    *)
(* scheduled handler with the checks of all sites in flight.  SpecRead     *)
(* runs getStatus and getHistory on seeded namespaces, and SpecMixed runs  *)
(* them while a check is made.  SpecPaged is getHistory on a namespace     *)
(* whose list returns pages, SpecStale is checkSite on a namespace whose   *)
(* get may return the value before the last put, SpecSampler is Spec with  *)
(* no writer but checkSite, and SpecNamed checks two sites of which one's  *)
(* name begins with the other's.                                           *)
(***************************************************************************)
EXTENDS Integers, Sequences, FiniteSets, TLC

VARIABLES
    kv,        \* env.UPTIME_KV: key -> [text, options]
    now,       \* Date.now()
    pc,        \* per site: where its checkSite call stands
    start,     \* per site: const start = const timestamp = Date.now()
    probe,     \* per site: how the fetch settled (response or thrown error)
    data,      \* per site: const data: UptimeData of the running path
    calls,     \* per site: the KV calls of the current / last checkSite call
    result,    \* per site: how the checkSite promise settled
    last,      \* per site: timestamp and status of the latest resolved check
    prev,      \* per site: last[n] as it was when the current call started
    fired,     \* when the latest checkSite call was started
    nChecks,   \* checkSite calls started
    nFaults,   \* KV operations that threw
    req        \* the getStatus / getHistory call being served, and its response

vars == <<kv, now, pc, start, probe, data, calls, result, last, prev, fired,
          nChecks, nFaults, req>>

----------------------------------------------------------------------------
\* Bounds of the model.

MaxChecks == 3
MaxFaults == 1

\* The time from one checkSite call to the next (ms).  The trigger is
\* periodic; the model looks at calls about an hour apart, so that the third
\* call comes exactly two hours, or more than two hours, after the first.
HOUR == 60 * 60 * 1000
Periods == {HOUR, HOUR + 1}

\* The time from a fetch to its answer (ms), below every site's timeout.
Latencies == {250}

----------------------------------------------------------------------------
\* Configuration.

MONITORED_SITES ==
    << [name |-> "main", timeout |-> 10000],
       [name |-> "dashboard", timeout |-> 10000],
       [name |-> "api", timeout |-> 10000],
       [name |-> "cdn", timeout |-> 10000] >>

\* The sites whose checkSite calls the model runs; a site has at most one call
\* in flight.
CheckedSites == {MONITORED_SITES[1]}

Names == {site.name : site \in CheckedSites}

\* What fetch can settle with: a Response (ok, status) or a thrown error.
Responses == {[ok |-> TRUE, status |-> 200], [ok |-> FALSE, status |-> 500]}
NetworkError == "Network error"
AbortError == "The operation was aborted"
KVError == "KV error"

----------------------------------------------------------------------------
\* Texts and JSON.

\* What KV.get resolves to for a missing key.
Null == [kind |-> "null"]

\* A stored text that is not JSON.
InvalidJson == [kind |-> "text", raw |-> "invalid json"]

\* JSON.stringify(obj): the JSON text of an object of numbers and strings.
JSONstringify(obj) == [kind |-> "json", obj |-> obj]

\* JSON.parse(text) throws a SyntaxError on a text that is not JSON ...
JSONparseThrows(text) == text.kind # "json"

\* ... and otherwise returns the object the text denotes.
JSONparse(text) == text.obj

\* !value for what KV.get resolves to.
Falsy(value) == value = Null

----------------------------------------------------------------------------
\* Keys.

\* LastHistoryKey with one marker for all sites.
LastHistoryKey_Shared(name) == <<"last_history", "all">>

CurrentKey(name) == <<"current", name>>
LastHistoryKey(name) == <<"last_history", name>>
HistoryKey(name, timestamp) == <<"history", name, timestamp>>

\* ExpirationTtl of one day.
ExpirationTtl_OneDay == << 24 * 60 * 60 >>

\* put options
NoOptions == <<>>
ExpirationTtl == << 7 * 24 * 60 * 60 >>

\* env.UPTIME_KV.get(key) on store s
KVGet(s, key) == IF key \in DOMAIN s THEN s[key].text ELSE Null

\* env.UPTIME_KV.put(key, text, options) on store s
KVPut(s, key, text, options) ==
    [k \in DOMAIN s \cup {key} |->
        IF k = key THEN [text |-> text, options |-> options] ELSE s[k]]

----------------------------------------------------------------------------
\* checkSite: the records and the sampling decision.

\* const data (try path)
TryData(response, responseTime, timestamp) ==
    [status |-> IF response.ok THEN "up" ELSE "down",
     responseTime |-> responseTime,
     statusCode |-> response.status,
     timestamp |-> timestamp]

\* CatchData with a statusCode field left in (a slip when copying the try path).
CatchData_WithStatusCode(message, responseTime, timestamp) ==
    [status |-> "down",
     error |-> message,
     responseTime |-> responseTime,
     statusCode |-> 0,
     timestamp |-> timestamp]

\* const data (catch path)
CatchData(message, responseTime, timestamp) ==
    [status |-> "down",
     error |-> message,
     responseTime |-> responseTime,
     timestamp |-> timestamp]

\* ShouldStoreTry with the "first time" case dropped.
ShouldStoreTry_NoFirstTime(lastHistory, timestamp, status) ==
    IF Falsy(lastHistory) THEN FALSE
    ELSE IF JSONparseThrows(lastHistory) THEN TRUE
    ELSE LET lastData == JSONparse(lastHistory)
             timeDiff == timestamp - lastData.timestamp
             statusChanged == lastData.status # status
             twoHoursPassed == timeDiff > 2 * 60 * 60 * 1000
         IN  statusChanged \/ twoHoursPassed

\* ShouldStoreTry with && for ||.
ShouldStoreTry_And(lastHistory, timestamp, status) ==
    IF Falsy(lastHistory) THEN TRUE
    ELSE IF JSONparseThrows(lastHistory) THEN TRUE
    ELSE LET lastData == JSONparse(lastHistory)
             timeDiff == timestamp - lastData.timestamp
             statusChanged == lastData.status # status
             twoHoursPassed == timeDiff > 2 * 60 * 60 * 1000
         IN  statusChanged /\ twoHoursPassed

\* ShouldStoreTry with >= for >.
ShouldStoreTry_AtLeast(lastHistory, timestamp, status) ==
    IF Falsy(lastHistory) THEN TRUE
    ELSE IF JSONparseThrows(lastHistory) THEN TRUE
    ELSE LET lastData == JSONparse(lastHistory)
             timeDiff == timestamp - lastData.timestamp
             statusChanged == lastData.status # status
             twoHoursPassed == timeDiff >= 2 * 60 * 60 * 1000
         IN  statusChanged \/ twoHoursPassed

\* ShouldStoreTry without the two-hour rule.
ShouldStoreTry_ChangeOnly(lastHistory, timestamp, status) ==
    IF Falsy(lastHistory) THEN TRUE
    ELSE IF JSONparseThrows(lastHistory) THEN TRUE
    ELSE LET lastData == JSONparse(lastHistory)
             statusChanged == lastData.status # status
         IN  statusChanged

\* ShouldStoreTry without the status comparison.
ShouldStoreTry_IntervalOnly(lastHistory, timestamp, status) ==
    IF Falsy(lastHistory) THEN TRUE
    ELSE IF JSONparseThrows(lastHistory) THEN TRUE
    ELSE LET lastData == JSONparse(lastHistory)
             timeDiff == timestamp - lastData.timestamp
             twoHoursPassed == timeDiff > 2 * 60 * 60 * 1000
         IN  twoHoursPassed

\* shouldStore of the try path
ShouldStoreTry(lastHistory, timestamp, status) ==
    IF Falsy(lastHistory) THEN TRUE
    ELSE IF JSONparseThrows(lastHistory) THEN TRUE
    ELSE LET lastData == JSONparse(lastHistory)
             timeDiff == timestamp - lastData.timestamp
             statusChanged == lastData.status # status
             twoHoursPassed == timeDiff > 2 * 60 * 60 * 1000
         IN  statusChanged \/ twoHoursPassed

\* ShouldStoreCatch comparing with 'up' (a slip when copying the try path).
ShouldStoreCatch_ComparesUp(lastHistory, timestamp) ==
    IF Falsy(lastHistory) THEN TRUE
    ELSE IF JSONparseThrows(lastHistory) THEN TRUE
    ELSE LET lastData == JSONparse(lastHistory)
             timeDiff == timestamp - lastData.timestamp
             statusChanged == lastData.status # "up"
             twoHoursPassed == timeDiff > 2 * 60 * 60 * 1000
         IN  statusChanged \/ twoHoursPassed

\* ShouldStoreCatch whose inner catch leaves shouldStore false.
ShouldStoreCatch_DropsInvalid(lastHistory, timestamp) ==
    IF Falsy(lastHistory) THEN TRUE
    ELSE IF JSONparseThrows(lastHistory) THEN FALSE
    ELSE LET lastData == JSONparse(lastHistory)
             timeDiff == timestamp - lastData.timestamp
             statusChanged == lastData.status # "down"
             twoHoursPassed == timeDiff > 2 * 60 * 60 * 1000
         IN  statusChanged \/ twoHoursPassed

\* ShouldStoreCatch without the status comparison.
ShouldStoreCatch_IntervalOnly(lastHistory, timestamp) ==
    IF Falsy(lastHistory) THEN TRUE
    ELSE IF JSONparseThrows(lastHistory) THEN TRUE
    ELSE LET lastData == JSONparse(lastHistory)
             timeDiff == timestamp - lastData.timestamp
             twoHoursPassed == timeDiff > 2 * 60 * 60 * 1000
         IN  twoHoursPassed

\* ShouldStoreCatch sampling also at exactly two hours.
ShouldStoreCatch_AtLeast(lastHistory, timestamp) ==
    IF Falsy(lastHistory) THEN TRUE
    ELSE IF JSONparseThrows(lastHistory) THEN TRUE
    ELSE LET lastData == JSONparse(lastHistory)
             timeDiff == timestamp - lastData.timestamp
             statusChanged == lastData.status # "down"
             twoHoursPassed == timeDiff >= 2 * 60 * 60 * 1000
         IN  statusChanged \/ twoHoursPassed

\* shouldStore of the catch path
ShouldStoreCatch(lastHistory, timestamp) ==
    IF Falsy(lastHistory) THEN TRUE
    ELSE IF JSONparseThrows(lastHistory) THEN TRUE
    ELSE LET lastData == JSONparse(lastHistory)
             timeDiff == timestamp - lastData.timestamp
             statusChanged == lastData.status # "down"
             twoHoursPassed == timeDiff > 2 * 60 * 60 * 1000
         IN  statusChanged \/ twoHoursPassed

----------------------------------------------------------------------------
\* Bookkeeping shared by the steps.

Call(op, key, text, options, ok) ==
    [op |-> op, key |-> key, text |-> text, options |-> options, ok |-> ok]

\* The checkSite promise of site n resolves.
Resolve(n) ==
    /\ pc' = [pc EXCEPT ![n] = "idle"]
    /\ result' = [result EXCEPT ![n] = "resolved"]
    /\ last' = [last EXCEPT ![n] =
                 [timestamp |-> data[n].timestamp, status |-> data[n].status]]

\* The checkSite promise of site n rejects.
Reject(n) ==
    /\ pc' = [pc EXCEPT ![n] = "idle"]
    /\ result' = [result EXCEPT ![n] = "rejected"]
    /\ last' = last

\* } catch (error: any) { const data = ... : control enters the catch block.
EnterCatch(n, message, time) ==
    /\ data' = [data EXCEPT ![n] = CatchData(message, time - start[n], start[n])]
    /\ pc' = [pc EXCEPT ![n] = "catch_put_current"]
    /\ UNCHANGED <<result, last>>

\* A KV operation of the try block throws: the catch block takes it.
ThrowInTry(n, op, key, text, options) ==
    /\ nFaults < MaxFaults
    /\ nFaults' = nFaults + 1
    /\ calls' = [calls EXCEPT ![n] = Append(@, Call(op, key, text, options, FALSE))]
    /\ EnterCatch(n, KVError, now)
    /\ UNCHANGED <<kv, now, start, probe, prev, fired, nChecks>>

\* A KV operation of the catch block throws: nothing catches it.
ThrowInCatch(n, op, key, text, options) ==
    /\ nFaults < MaxFaults
    /\ nFaults' = nFaults + 1
    /\ calls' = [calls EXCEPT ![n] = Append(@, Call(op, key, text, options, FALSE))]
    /\ Reject(n)
    /\ UNCHANGED <<kv, now, start, probe, data, prev, fired, nChecks>>

\* The state of the read handlers when no getStatus / getHistory call has been
\* made: nothing pending, no local variables, no response.
NoRequest ==
    [handler |-> "none", pc |-> "idle", siteName |-> Null, sites |-> <<>>,
     statuses |-> <<>>, keys |-> <<>>, history |-> <<>>, calls |-> <<>>,
     response |-> [kind |-> "none"]]

----------------------------------------------------------------------------
\* checkSite, step by step.

Init ==
    /\ kv = <<>>
    /\ now = 0
    /\ pc = [n \in Names |-> "idle"]
    /\ start = [n \in Names |-> 0]
    /\ probe = [n \in Names |-> [kind |-> "none"]]
    /\ data = [n \in Names |-> [status |-> "none"]]
    /\ calls = [n \in Names |-> <<>>]
    /\ result = [n \in Names |-> "none"]
    /\ last = [n \in Names |-> [status |-> "none"]]
    /\ prev = [n \in Names |-> [status |-> "none"]]
    /\ fired = 0
    /\ nChecks = 0
    /\ nFaults = 0
    /\ req = NoRequest

\* checkSite(site, env) up to its first await: the clock is read and the
\* request is sent.  The first call is made at time 0, each later one a
\* period after the call before it.
StartCheck(site) ==
    LET n == site.name IN
    /\ pc[n] = "idle"
    /\ nChecks < MaxChecks
    /\ nChecks' = nChecks + 1
    /\ \E period \in Periods :
        /\ now' = IF nChecks = 0 THEN now ELSE fired + period
        /\ now' >= now
    /\ fired' = now'
    /\ start' = [start EXCEPT ![n] = now']
    /\ pc' = [pc EXCEPT ![n] = "fetch"]
    /\ probe' = [probe EXCEPT ![n] = [kind |-> "pending"]]
    /\ data' = [data EXCEPT ![n] = [status |-> "none"]]
    /\ calls' = [calls EXCEPT ![n] = <<>>]
    /\ result' = [result EXCEPT ![n] = "pending"]
    /\ prev' = [prev EXCEPT ![n] = last[n]]
    /\ UNCHANGED <<kv, last, nFaults>>
    /\ UNCHANGED req

\* fetch resolves with a response before the timer fires.
FetchResponse(site) ==
    LET n == site.name IN
    /\ pc[n] = "fetch"
    /\ \E latency \in Latencies :
        /\ latency < site.timeout
        /\ now <= start[n] + latency
        /\ now' = start[n] + latency
    /\ \E response \in Responses :
        /\ probe' = [probe EXCEPT ![n] =
                        [kind |-> "response", ok |-> response.ok,
                         status |-> response.status]]
        /\ data' = [data EXCEPT ![n] = TryData(response, now' - start[n], start[n])]
    /\ pc' = [pc EXCEPT ![n] = "try_put_current"]
    /\ UNCHANGED <<kv, start, calls, result, last, prev, fired, nChecks, nFaults>>
    /\ UNCHANGED req

\* fetch rejects with a transport error before the timer fires.
FetchError(site) ==
    LET n == site.name IN
    /\ pc[n] = "fetch"
    /\ \E latency \in Latencies :
        /\ latency < site.timeout
        /\ now <= start[n] + latency
        /\ now' = start[n] + latency
    /\ probe' = [probe EXCEPT ![n] = [kind |-> "error", message |-> NetworkError]]
    /\ EnterCatch(n, NetworkError, now')
    /\ UNCHANGED <<kv, start, calls, prev, fired, nChecks, nFaults>>
    /\ UNCHANGED req

\* FetchAbort without the timer: a fetch that is not answered is never
\* aborted.
FetchAbort_NoTimer(site) ==
    /\ pc[site.name] = "fetch"
    /\ FALSE
    /\ UNCHANGED vars

\* The timer fires site.timeout after it was set: controller.abort() makes
\* fetch reject.
FetchAbort(site) ==
    LET n == site.name IN
    /\ pc[n] = "fetch"
    /\ now <= start[n] + site.timeout
    /\ now' = start[n] + site.timeout
    /\ probe' = [probe EXCEPT ![n] = [kind |-> "error", message |-> AbortError]]
    /\ EnterCatch(n, AbortError, now')
    /\ UNCHANGED <<kv, start, calls, prev, fired, nChecks, nFaults>>
    /\ UNCHANGED req

\* TryPutCurrent with the put left out: the current slot is not written
\* before the marker is read.
TryPutCurrent_Skipped(site) ==
    LET n == site.name IN
    /\ pc[n] = "try_put_current"
    /\ pc' = [pc EXCEPT ![n] = "try_get_marker"]
    /\ UNCHANGED <<kv, now, start, probe, data, calls, result, last, prev, fired,
                   nChecks, nFaults>>
    /\ UNCHANGED req

\* await env.UPTIME_KV.put(`current_${site.name}`, JSON.stringify(data))
TryPutCurrent(site) ==
    LET n == site.name
        key == CurrentKey(n)
        text == JSONstringify(data[n])
    IN
    /\ pc[n] = "try_put_current"
    /\ \/ /\ kv' = KVPut(kv, key, text, NoOptions)
          /\ calls' = [calls EXCEPT ![n] = Append(@, Call("put", key, text, NoOptions, TRUE))]
          /\ pc' = [pc EXCEPT ![n] = "try_get_marker"]
          /\ UNCHANGED <<now, start, probe, data, result, last, prev, fired,
                         nChecks, nFaults>>
       \/ ThrowInTry(n, "put", key, text, NoOptions)
    /\ UNCHANGED req

\* const lastHistory = await env.UPTIME_KV.get(lastHistoryKey), and the
\* decision that follows it without another await.
TryGetMarker(site) ==
    LET n == site.name
        key == LastHistoryKey(n)
        lastHistory == KVGet(kv, key)
        cs == Append(calls[n], Call("get", key, lastHistory, NoOptions, TRUE))
    IN
    /\ pc[n] = "try_get_marker"
    /\ \/ /\ calls' = [calls EXCEPT ![n] = cs]
          /\ IF ShouldStoreTry(lastHistory, start[n], data[n].status)
             THEN /\ pc' = [pc EXCEPT ![n] = "try_put_history"]
                  /\ UNCHANGED <<result, last>>
             ELSE Resolve(n)
          /\ UNCHANGED <<kv, now, start, probe, data, prev, fired,
                         nChecks, nFaults>>
       \/ ThrowInTry(n, "get", key, Null, NoOptions)
    /\ UNCHANGED req

\* TryPutHistory with the put left out: the marker is written without its
\* history entry.
TryPutHistory_Skipped(site) ==
    LET n == site.name IN
    /\ pc[n] = "try_put_history"
    /\ pc' = [pc EXCEPT ![n] = "try_put_marker"]
    /\ UNCHANGED <<kv, now, start, probe, data, calls, result, last, prev, fired,
                   nChecks, nFaults>>
    /\ UNCHANGED req

\* await env.UPTIME_KV.put(`history_${site.name}_${timestamp}`, ..., {expirationTtl})
TryPutHistory(site) ==
    LET n == site.name
        key == HistoryKey(n, start[n])
        text == JSONstringify(data[n])
    IN
    /\ pc[n] = "try_put_history"
    /\ \/ /\ kv' = KVPut(kv, key, text, ExpirationTtl)
          /\ calls' = [calls EXCEPT ![n] = Append(@, Call("put", key, text, ExpirationTtl, TRUE))]
          /\ pc' = [pc EXCEPT ![n] = "try_put_marker"]
          /\ UNCHANGED <<now, start, probe, data, result, last, prev, fired,
                         nChecks, nFaults>>
       \/ ThrowInTry(n, "put", key, text, ExpirationTtl)
    /\ UNCHANGED req

\* await env.UPTIME_KV.put(lastHistoryKey, JSON.stringify(data))
TryPutMarker(site) ==
    LET n == site.name
        key == LastHistoryKey(n)
        text == JSONstringify(data[n])
        cs == Append(calls[n], Call("put", key, text, NoOptions, TRUE))
    IN
    /\ pc[n] = "try_put_marker"
    /\ \/ /\ kv' = KVPut(kv, key, text, NoOptions)
          /\ calls' = [calls EXCEPT ![n] = cs]
          /\ Resolve(n)
          /\ UNCHANGED <<now, start, probe, data, prev, fired,
                         nChecks, nFaults>>
       \/ ThrowInTry(n, "put", key, text, NoOptions)
    /\ UNCHANGED req

\* catch: await env.UPTIME_KV.put(`current_${site.name}`, JSON.stringify(data))
CatchPutCurrent(site) ==
    LET n == site.name
        key == CurrentKey(n)
        text == JSONstringify(data[n])
    IN
    /\ pc[n] = "catch_put_current"
    /\ \/ /\ kv' = KVPut(kv, key, text, NoOptions)
          /\ calls' = [calls EXCEPT ![n] = Append(@, Call("put", key, text, NoOptions, TRUE))]
          /\ pc' = [pc EXCEPT ![n] = "catch_get_marker"]
          /\ UNCHANGED <<now, start, probe, data, result, last, prev, fired,
                         nChecks, nFaults>>
       \/ ThrowInCatch(n, "put", key, text, NoOptions)
    /\ UNCHANGED req

\* catch: const lastHistory = await env.UPTIME_KV.get(lastHistoryKey), and the
\* decision that follows it.
CatchGetMarker(site) ==
    LET n == site.name
        key == LastHistoryKey(n)
        lastHistory == KVGet(kv, key)
        cs == Append(calls[n], Call("get", key, lastHistory, NoOptions, TRUE))
    IN
    /\ pc[n] = "catch_get_marker"
    /\ \/ /\ calls' = [calls EXCEPT ![n] = cs]
          /\ IF ShouldStoreCatch(lastHistory, start[n])
             THEN /\ pc' = [pc EXCEPT ![n] = "catch_put_history"]
                  /\ UNCHANGED <<result, last>>
             ELSE Resolve(n)
          /\ UNCHANGED <<kv, now, start, probe, data, prev, fired,
                         nChecks, nFaults>>
       \/ ThrowInCatch(n, "get", key, Null, NoOptions)
    /\ UNCHANGED req

\* catch: await env.UPTIME_KV.put(`history_${site.name}_${timestamp}`, ...)
CatchPutHistory(site) ==
    LET n == site.name
        key == HistoryKey(n, start[n])
        text == JSONstringify(data[n])
    IN
    /\ pc[n] = "catch_put_history"
    /\ \/ /\ kv' = KVPut(kv, key, text, ExpirationTtl)
          /\ calls' = [calls EXCEPT ![n] = Append(@, Call("put", key, text, ExpirationTtl, TRUE))]
          /\ pc' = [pc EXCEPT ![n] = "catch_put_marker"]
          /\ UNCHANGED <<now, start, probe, data, result, last, prev, fired,
                         nChecks, nFaults>>
       \/ ThrowInCatch(n, "put", key, text, ExpirationTtl)
    /\ UNCHANGED req

\* catch: await env.UPTIME_KV.put(lastHistoryKey, JSON.stringify(data))
CatchPutMarker(site) ==
    LET n == site.name
        key == LastHistoryKey(n)
        text == JSONstringify(data[n])
        cs == Append(calls[n], Call("put", key, text, NoOptions, TRUE))
    IN
    /\ pc[n] = "catch_put_marker"
    /\ \/ /\ kv' = KVPut(kv, key, text, NoOptions)
          /\ calls' = [calls EXCEPT ![n] = cs]
          /\ Resolve(n)
          /\ UNCHANGED <<now, start, probe, data, prev, fired,
                         nChecks, nFaults>>
       \/ ThrowInCatch(n, "put", key, text, NoOptions)
    /\ UNCHANGED req

----------------------------------------------------------------------------
\* The environment.

\* Between two checks the marker of a site is overwritten from outside with a
\* text that is not JSON (the namespace is shared storage; the tests seed it
\* this way).
ForeignPut(site) ==
    /\ pc[site.name] = "idle"
    /\ KVGet(kv, LastHistoryKey(site.name)) # InvalidJson
    /\ kv' = KVPut(kv, LastHistoryKey(site.name), InvalidJson, NoOptions)
    /\ UNCHANGED <<now, pc, start, probe, data, calls, result, last, prev, fired,
                   nChecks, nFaults>>
    /\ UNCHANGED req

Next ==
    \/ \E site \in CheckedSites :
        \/ StartCheck(site)
        \/ FetchResponse(site)
        \/ FetchError(site)
        \/ FetchAbort(site)
        \/ TryPutCurrent(site)
        \/ TryGetMarker(site)
        \/ TryPutHistory(site)
        \/ TryPutMarker(site)
        \/ CatchPutCurrent(site)
        \/ CatchGetMarker(site)
        \/ CatchPutHistory(site)
        \/ CatchPutMarker(site)
        \/ ForeignPut(site)

Spec == Init /\ [][Next]_vars

----------------------------------------------------------------------------
\* checkSite with the progress the runtime gives it: a timer that was set
\* fires, and a KV operation that was started settles.  Nothing makes a site
\* answer, and nothing makes the trigger call checkSite again.

CheckFairness(site) ==
    /\ WF_vars(FetchAbort(site))
    /\ WF_vars(TryPutCurrent(site))
    /\ WF_vars(TryGetMarker(site))
    /\ WF_vars(TryPutHistory(site))
    /\ WF_vars(TryPutMarker(site))
    /\ WF_vars(CatchPutCurrent(site))
    /\ WF_vars(CatchGetMarker(site))
    /\ WF_vars(CatchPutHistory(site))
    /\ WF_vars(CatchPutMarker(site))

SpecLive == Spec /\ \A site \in CheckedSites : CheckFairness(site)

----------------------------------------------------------------------------
\* The read handlers: getStatus and getHistory, one await per step.

\* The limit of history.slice(0, 100).
HistoryLimit == 100

\* The largest number of keys of which the model tries every listing order.
MaxListed == 3

\* const sites = ['main', 'dashboard', 'api', 'cdn'] of getStatus
StatusSites == <<"main", "dashboard", "api", "cdn">>

\* url.searchParams.get('site'): null when the parameter is missing, a string
\* (possibly empty) otherwise.
Str(value) == [kind |-> "string", value |-> value]
SiteParams == {Null, Str(""), Str("main"), Str("cdn")}

\* NoSiteName testing for null only: an empty string passes.
NoSiteName_NullOnly(siteName) == siteName = Null

\* !siteName
NoSiteName(siteName) == siteName = Null \/ siteName.value = ""

\* The pieces of a text between its underscores, for the texts key names are
\* made of.
Split(text) ==
    IF text = "main_eu" THEN <<"main", "eu">>
    ELSE IF text = "last_history" THEN <<"last", "history">>
    ELSE <<text>>

\* A key name or a prefix as the text the namespace sees: its pieces joined
\* with underscores, of which a name may hold some itself.
Parts(key) ==
    Split(key[1]) \o Split(key[2]) \o SubSeq(key, 3, Len(key))

\* `history_${siteName}_`, and the keys that start with it: the prefix ends
\* with an underscore, so a key starts with it when the pieces of the prefix
\* are the first pieces of the key and more follow.
HistoryPrefix(name) == <<"history", name>>
HasPrefix(key, prefix) ==
    /\ Len(Parts(key)) > Len(Parts(prefix))
    /\ SubSeq(Parts(key), 1, Len(Parts(prefix))) = Parts(prefix)

\* The key names env.UPTIME_KV.list({ prefix }) finds in store s.
KVList(s, prefix) == {key \in DOMAIN s : HasPrefix(key, prefix)}

\* The orders in which list may enumerate a set of keys.  The namespace
\* promises none: every order of a small set is tried, and of a larger set
\* the ascending order of the timestamps, a rotation of it and their reversals.
Ascending(S) ==
    LET rank == [k \in S |-> Cardinality({j \in S : j[3] < k[3]})]
    IN  [p \in 1..Cardinality(S) |-> CHOOSE k \in S : rank[k] = p - 1]

Rotate(seq, r) == SubSeq(seq, r + 1, Len(seq)) \o SubSeq(seq, 1, r)
Reverse(seq) == [i \in 1..Len(seq) |-> seq[Len(seq) + 1 - i]]

ListOrders(S) ==
    LET n == Cardinality(S) IN
    IF n <= MaxListed
    THEN {f \in [1..n -> S] : \A i, j \in 1..n : i # j => f[i] # f[j]}
    ELSE LET asc == Ascending(S)
             rotated == {Rotate(asc, r) : r \in {0, n \div 2}}
         IN  rotated \cup {Reverse(seq) : seq \in rotated}

\* CompareFn with its operands exchanged: oldest first.
CompareFn_Ascending(a, b) == a.timestamp - b.timestamp

\* (a, b) => b.timestamp - a.timestamp
CompareFn(a, b) == b.timestamp - a.timestamp

\* Array.prototype.sort(compareFn): a stable sort.  An element comes after
\* the elements that compare less than it, and after the earlier ones that
\* compare equal to it.
ArraySort(arr) ==
    LET n == Len(arr)
        rank == [i \in 1..n |->
                    Cardinality({j \in 1..n :
                        \/ CompareFn(arr[j], arr[i]) < 0
                        \/ CompareFn(arr[j], arr[i]) = 0 /\ j < i})]
    IN  [p \in 1..n |-> arr[CHOOSE i \in 1..n : rank[i] = p - 1]]

\* Array.prototype.slice(0, end)
ArraySlice(arr, end) == SubSeq(arr, 1, IF Len(arr) < end THEN Len(arr) ELSE end)

\* new Response(JSON.stringify(value), { headers }): status 200
JsonResponse(value) ==
    [kind |-> "response", payload |-> JSONstringify(value), status |-> 200]

\* new Response('Site parameter required', { status: 400 })
BadRequest ==
    [kind |-> "response",
     payload |-> [kind |-> "text", raw |-> "Site parameter required"],
     status |-> 400]

\* The promise of the handler rejects with the error of the KV operation.
Rejected(message) == [kind |-> "rejected", message |-> message]

\* StatusOf without the catch of the parse error: the text itself is what
\* the site maps to.
StatusOf_RawText(value) ==
    IF Falsy(value) THEN Null
    ELSE IF JSONparseThrows(value) THEN value
    ELSE JSONparse(value)

\* statuses[site] = data ? JSON.parse(data) : null, null too when parse throws
StatusOf(value) ==
    IF Falsy(value) THEN Null
    ELSE IF JSONparseThrows(value) THEN Null
    ELSE JSONparse(value)

\* Pushed with a text that is not JSON ending the collection: what was
\* pushed before it is lost.
Pushed_DropsCollected(history, value) ==
    IF Falsy(value) THEN history
    ELSE IF JSONparseThrows(value) THEN <<>>
    ELSE Append(history, JSONparse(value))

\* if (data) { try { history.push(JSON.parse(data)) } catch { console.warn } }
Pushed(history, value) ==
    IF Falsy(value) THEN history
    ELSE IF JSONparseThrows(value) THEN history
    ELSE Append(history, JSONparse(value))

\* HistoryResponse with the slice taken before the sort.
HistoryResponse_SliceFirst(history) ==
    JsonResponse(ArraySort(ArraySlice(history, HistoryLimit)))

\* history.sort(...); return new Response(JSON.stringify(history.slice(0, 100)))
HistoryResponse(history) ==
    JsonResponse(ArraySlice(ArraySort(history), HistoryLimit))

\* ThrowInRead with the error swallowed: the handler answers with what it has
\* collected so far.
ThrowInRead_Swallowed(op, key) ==
    /\ nFaults < MaxFaults
    /\ nFaults' = nFaults + 1
    /\ req' = [req EXCEPT !.pc = "done",
                          !.calls = Append(@, Call(op, key, Null, NoOptions, FALSE)),
                          !.response = IF req.handler = "getStatus"
                                       THEN JsonResponse(req.statuses)
                                       ELSE JsonResponse(req.history)]
    /\ UNCHANGED kv

\* A KV operation of a read handler throws: nothing catches it, the promise
\* of the handler rejects.
ThrowInRead(op, key) ==
    /\ nFaults < MaxFaults
    /\ nFaults' = nFaults + 1
    /\ req' = [req EXCEPT !.pc = "done",
                          !.calls = Append(@, Call(op, key, Null, NoOptions, FALSE)),
                          !.response = Rejected(KVError)]
    /\ UNCHANGED kv

\* getStatus(env) is called: up to the first await.
StatusRequest ==
    /\ req.pc \in {"idle", "done"}
    /\ req' = [NoRequest EXCEPT !.handler = "getStatus", !.pc = "get",
                                !.sites = StatusSites]
    /\ UNCHANGED <<kv, now, pc, start, probe, data, calls, result, last, prev,
                   fired, nChecks, nFaults>>

\* const data = await env.UPTIME_KV.get(`current_${site}`), the assignment to
\* statuses[site], and after the last site the response.
StatusGet ==
    LET site == Head(req.sites)
        key == CurrentKey(site)
        value == KVGet(kv, key)
        statuses == [n \in DOMAIN req.statuses \cup {site} |->
                        IF n = site THEN StatusOf(value) ELSE req.statuses[n]]
        rest == Tail(req.sites)
    IN
    /\ req.handler = "getStatus"
    /\ req.pc = "get"
    /\ \/ /\ req' = [req EXCEPT
                       !.sites = rest,
                       !.statuses = statuses,
                       !.calls = Append(@, Call("get", key, value, NoOptions, TRUE)),
                       !.pc = IF rest = <<>> THEN "done" ELSE "get",
                       !.response = IF rest = <<>> THEN JsonResponse(statuses) ELSE @]
          /\ UNCHANGED <<kv, nFaults>>
       \/ ThrowInRead("get", key)
    /\ UNCHANGED <<now, pc, start, probe, data, calls, result, last, prev,
                   fired, nChecks>>

\* getHistory(env, siteName) is called: the 400 response, or up to the await
\* of list.
HistoryRequest ==
    /\ req.pc \in {"idle", "done"}
    /\ \E siteName \in SiteParams :
        req' = IF NoSiteName(siteName)
               THEN [NoRequest EXCEPT !.handler = "getHistory", !.pc = "done",
                                      !.siteName = siteName,
                                      !.response = BadRequest]
               ELSE [NoRequest EXCEPT !.handler = "getHistory", !.pc = "list",
                                      !.siteName = siteName]
    /\ UNCHANGED <<kv, now, pc, start, probe, data, calls, result, last, prev,
                   fired, nChecks, nFaults>>

\* const list = await env.UPTIME_KV.list({ prefix: `history_${siteName}_` })
HistoryList ==
    LET prefix == HistoryPrefix(req.siteName.value) IN
    /\ req.handler = "getHistory"
    /\ req.pc = "list"
    /\ \/ /\ \E keys \in ListOrders(KVList(kv, prefix)) :
                req' = [req EXCEPT
                          !.keys = keys,
                          !.calls = Append(@, Call("list", prefix, Null, NoOptions, TRUE)),
                          !.pc = IF keys = <<>> THEN "done" ELSE "get",
                          !.response = IF keys = <<>> THEN HistoryResponse(<<>>) ELSE @]
          /\ UNCHANGED <<kv, nFaults>>
       \/ ThrowInRead("list", prefix)
    /\ UNCHANGED <<now, pc, start, probe, data, calls, result, last, prev,
                   fired, nChecks>>

\* HistoryGet removing from the namespace the entry it has read.
HistoryGet_Removes ==
    LET key == Head(req.keys)
        value == KVGet(kv, key)
        history == Pushed(req.history, value)
        rest == Tail(req.keys)
    IN
    /\ req.handler = "getHistory"
    /\ req.pc = "get"
    /\ req' = [req EXCEPT
                  !.keys = rest,
                  !.history = history,
                  !.calls = Append(@, Call("get", key, value, NoOptions, TRUE)),
                  !.pc = IF rest = <<>> THEN "done" ELSE "get",
                  !.response = IF rest = <<>> THEN HistoryResponse(history) ELSE @]
    /\ kv' = [k \in DOMAIN kv \ {key} |-> kv[k]]
    /\ UNCHANGED <<now, pc, start, probe, data, calls, result, last, prev,
                   fired, nChecks, nFaults>>

\* const data = await env.UPTIME_KV.get(key.name), the push, and after the
\* last key the sort, the slice and the response.
HistoryGet ==
    LET key == Head(req.keys)
        value == KVGet(kv, key)
        history == Pushed(req.history, value)
        rest == Tail(req.keys)
    IN
    /\ req.handler = "getHistory"
    /\ req.pc = "get"
    /\ \/ /\ req' = [req EXCEPT
                       !.keys = rest,
                       !.history = history,
                       !.calls = Append(@, Call("get", key, value, NoOptions, TRUE)),
                       !.pc = IF rest = <<>> THEN "done" ELSE "get",
                       !.response = IF rest = <<>> THEN HistoryResponse(history) ELSE @]
          /\ UNCHANGED <<kv, nFaults>>
       \/ ThrowInRead("get", key)
    /\ UNCHANGED <<now, pc, start, probe, data, calls, result, last, prev,
                   fired, nChecks>>

----------------------------------------------------------------------------
\* The read handlers on their own, on a namespace as the checks can have left
\* it and as the tests seed it.

\* The timestamp of the i-th seeded record, and the record: the odd ones of a
\* site that answered, the even ones of a site that did not.
Stamp(i) == i * HOUR
SeededData(timestamp) ==
    IF (timestamp \div HOUR) % 2 = 1
    THEN TryData([ok |-> TRUE, status |-> 200], 250, timestamp)
    ELSE CatchData(NetworkError, 250, timestamp)

\* A namespace with the history entries of "main" at the stamps T, those at
\* the stamps in corrupt holding a text that is not JSON, and one entry of
\* another site.
HistoryStore(T, corrupt) ==
    [key \in {HistoryKey("main", Stamp(i)) : i \in T}
                \cup {HistoryKey("api", Stamp(1))} |->
        [text |-> IF key[2] = "main" /\ key[3] \in {Stamp(i) : i \in corrupt}
                  THEN InvalidJson
                  ELSE JSONstringify(SeededData(key[3])),
         options |-> ExpirationTtl]]

\* A namespace with the current slot of every site absent, not JSON, or the
\* record of a check.
CurrentStore(slots) ==
    [key \in {CurrentKey(n) : n \in {m \in DOMAIN slots : slots[m] # "absent"}} |->
        [text |-> IF slots[key[2]] = "invalid" THEN InvalidJson
                  ELSE IF slots[key[2]] = "up" THEN JSONstringify(SeededData(Stamp(1)))
                  ELSE JSONstringify(SeededData(Stamp(2))),
         options |-> NoOptions]]

SeededStores ==
    {HistoryStore(T, corrupt) : <<T, corrupt>> \in
        {tc \in (SUBSET (1..MaxListed)) \X (SUBSET (1..MaxListed)) :
            tc[2] \subseteq tc[1]}}
    \cup {HistoryStore(1..N, {}) : N \in (HistoryLimit - 1)..(HistoryLimit + 2)}
    \cup {HistoryStore(1..N, {N \div 2}) : N \in (HistoryLimit + 1)..(HistoryLimit + 2)}
    \cup {CurrentStore(slots) :
            slots \in [{StatusSites[i] : i \in 1..Len(StatusSites)} ->
                          {"absent", "invalid", "up", "down"}]}

InitRead ==
    /\ kv \in SeededStores
    /\ now = 0
    /\ pc = [n \in Names |-> "idle"]
    /\ start = [n \in Names |-> 0]
    /\ probe = [n \in Names |-> [kind |-> "none"]]
    /\ data = [n \in Names |-> [status |-> "none"]]
    /\ calls = [n \in Names |-> <<>>]
    /\ result = [n \in Names |-> "none"]
    /\ last = [n \in Names |-> [status |-> "none"]]
    /\ prev = [n \in Names |-> [status |-> "none"]]
    /\ fired = 0
    /\ nChecks = 0
    /\ nFaults = 0
    /\ req = NoRequest

NextRead ==
    \/ StatusRequest
    \/ StatusGet
    \/ HistoryRequest
    \/ HistoryList
    \/ HistoryGet

SpecRead == InitRead /\ [][NextRead]_vars

----------------------------------------------------------------------------
\* The scheduled handler: one invocation, the checks of all sites in flight
\* together.

AllSites == {MONITORED_SITES[i] : i \in 1..Len(MONITORED_SITES)}
AllNames == {site.name : site \in AllSites}

InitCycle ==
    /\ kv = <<>>
    /\ now = 0
    /\ pc = [n \in AllNames |-> "idle"]
    /\ start = [n \in AllNames |-> 0]
    /\ probe = [n \in AllNames |-> [kind |-> "none"]]
    /\ data = [n \in AllNames |-> [status |-> "none"]]
    /\ calls = [n \in AllNames |-> <<>>]
    /\ result = [n \in AllNames |-> "none"]
    /\ last = [n \in AllNames |-> [status |-> "none"]]
    /\ prev = [n \in AllNames |-> [status |-> "none"]]
    /\ fired = 0
    /\ nChecks = 0
    /\ nFaults = 0
    /\ req = NoRequest

\* const checks = MONITORED_SITES.map(site => checkSite(site, env)): every
\* checkSite call runs up to its first await before the next one is made.
Scheduled ==
    /\ nChecks = 0
    /\ nChecks' = Len(MONITORED_SITES)
    /\ fired' = now
    /\ start' = [n \in AllNames |-> now]
    /\ pc' = [n \in AllNames |-> "fetch"]
    /\ probe' = [n \in AllNames |-> [kind |-> "pending"]]
    /\ data' = [n \in AllNames |-> [status |-> "none"]]
    /\ calls' = [n \in AllNames |-> <<>>]
    /\ result' = [n \in AllNames |-> "pending"]
    /\ prev' = last
    /\ UNCHANGED <<kv, now, last, nFaults, req>>

\* await Promise.all(checks): the promise of scheduled rejects as soon as one
\* of the checks has rejected, and resolves when all of them have resolved.
PromiseAll(results) ==
    IF \E n \in DOMAIN results : results[n] = "rejected" THEN "rejected"
    ELSE IF \A n \in DOMAIN results : results[n] = "resolved" THEN "resolved"
    ELSE IF \A n \in DOMAIN results : results[n] = "none" THEN "none"
    ELSE "pending"

\* What the sites do in the invocation: main answers 200, dashboard answers
\* 500, the fetch of api fails, and cdn answers 200 or not at all.
Scenario ==
    [main |-> {[kind |-> "response", ok |-> TRUE, status |-> 200]},
     dashboard |-> {[kind |-> "response", ok |-> FALSE, status |-> 500]},
     api |-> {[kind |-> "error", message |-> NetworkError]},
     cdn |-> {[kind |-> "response", ok |-> TRUE, status |-> 200],
              [kind |-> "error", message |-> AbortError]}]

\* The fetch steps of a site in the scenario.  A timer fires long after the
\* answers have come: when it does, no site that answers is still waiting.
ScenarioResponse(site) ==
    /\ FetchResponse(site)
    /\ probe'[site.name] \in Scenario[site.name]

ScenarioError(site) ==
    /\ FetchError(site)
    /\ probe'[site.name] \in Scenario[site.name]

ScenarioAbort(site) ==
    /\ \A other \in AllSites :
          pc[other.name] = "fetch" =>
              [kind |-> "error", message |-> AbortError] \in Scenario[other.name]
    /\ FetchAbort(site)
    /\ probe'[site.name] \in Scenario[site.name]

NextCycle ==
    \/ Scheduled
    \/ \E site \in AllSites :
        \/ ScenarioResponse(site)
        \/ ScenarioError(site)
        \/ ScenarioAbort(site)
        \/ TryPutCurrent(site)
        \/ TryGetMarker(site)
        \/ TryPutHistory(site)
        \/ TryPutMarker(site)
        \/ CatchPutCurrent(site)
        \/ CatchGetMarker(site)
        \/ CatchPutHistory(site)
        \/ CatchPutMarker(site)

SpecCycle == InitCycle /\ [][NextCycle]_vars

----------------------------------------------------------------------------
\* getHistory on a namespace whose list operation answers in pages: a call
\* returns at most PageLimit key names, and whether the listing is complete.

\* The number of key names in a page (scaled down for the model).
PageLimit == 2

\* The result of one list call when the matching keys are enumerated in the
\* order keys: the first page, and list_complete.
FirstPage(keys) ==
    [keys |-> SubSeq(keys, 1, IF Len(keys) < PageLimit THEN Len(keys) ELSE PageLimit),
     list_complete |-> Len(keys) <= PageLimit]

\* const list = await env.UPTIME_KV.list({ prefix }) answered with a page:
\* the loop runs over list.keys of this one call.
HistoryListPaged ==
    LET prefix == HistoryPrefix(req.siteName.value) IN
    /\ req.handler = "getHistory"
    /\ req.pc = "list"
    /\ \/ /\ \E order \in ListOrders(KVList(kv, prefix)) :
                LET list == FirstPage(order) IN
                req' = [req EXCEPT
                          !.keys = list.keys,
                          !.calls = Append(@, Call("list", prefix, Null, NoOptions, TRUE)),
                          !.pc = IF list.keys = <<>> THEN "done" ELSE "get",
                          !.response = IF list.keys = <<>> THEN HistoryResponse(<<>>) ELSE @]
          /\ UNCHANGED <<kv, nFaults>>
       \/ ThrowInRead("list", prefix)
    /\ UNCHANGED <<now, pc, start, probe, data, calls, result, last, prev,
                   fired, nChecks>>

NextPaged ==
    \/ HistoryRequest
    \/ HistoryListPaged
    \/ HistoryGet

SpecPaged == InitRead /\ [][NextPaged]_vars

----------------------------------------------------------------------------
\* checkSite on an eventually-consistent namespace: the get of the marker may
\* return the marker as it was before its latest update.  KV operations do
\* not fail here, and nothing else writes the marker.

\* The marker of site n before its latest update: every marker is the record
\* of a history entry, so this is the entry before the marker's own, and null
\* when there is none.
StaleMarker(n) ==
    LET current == KVGet(kv, LastHistoryKey(n))
        older == {key \in KVList(kv, HistoryPrefix(n)) :
                    key[3] < JSONparse(current).timestamp}
    IN  IF Falsy(current) \/ older = {} THEN Null
        ELSE kv[CHOOSE key \in older : \A k \in older : k[3] <= key[3]].text

\* const lastHistory = await env.UPTIME_KV.get(lastHistoryKey) answered with
\* the stale value, and the decision that follows it.
TryGetMarkerStale(site) ==
    LET n == site.name
        key == LastHistoryKey(n)
        lastHistory == StaleMarker(n)
        cs == Append(calls[n], Call("get", key, lastHistory, NoOptions, TRUE))
    IN
    /\ pc[n] = "try_get_marker"
    /\ lastHistory # KVGet(kv, key)
    /\ calls' = [calls EXCEPT ![n] = cs]
    /\ IF ShouldStoreTry(lastHistory, start[n], data[n].status)
       THEN /\ pc' = [pc EXCEPT ![n] = "try_put_history"]
            /\ UNCHANGED <<result, last>>
       ELSE Resolve(n)
    /\ UNCHANGED <<kv, now, start, probe, data, prev, fired, nChecks, nFaults, req>>

\* catch: the same get answered with the stale value.
CatchGetMarkerStale(site) ==
    LET n == site.name
        key == LastHistoryKey(n)
        lastHistory == StaleMarker(n)
        cs == Append(calls[n], Call("get", key, lastHistory, NoOptions, TRUE))
    IN
    /\ pc[n] = "catch_get_marker"
    /\ lastHistory # KVGet(kv, key)
    /\ calls' = [calls EXCEPT ![n] = cs]
    /\ IF ShouldStoreCatch(lastHistory, start[n])
       THEN /\ pc' = [pc EXCEPT ![n] = "catch_put_history"]
            /\ UNCHANGED <<result, last>>
       ELSE Resolve(n)
    /\ UNCHANGED <<kv, now, start, probe, data, prev, fired, nChecks, nFaults, req>>

InitStale ==
    /\ kv = <<>>
    /\ now = 0
    /\ pc = [n \in Names |-> "idle"]
    /\ start = [n \in Names |-> 0]
    /\ probe = [n \in Names |-> [kind |-> "none"]]
    /\ data = [n \in Names |-> [status |-> "none"]]
    /\ calls = [n \in Names |-> <<>>]
    /\ result = [n \in Names |-> "none"]
    /\ last = [n \in Names |-> [status |-> "none"]]
    /\ prev = [n \in Names |-> [status |-> "none"]]
    /\ fired = 0
    /\ nChecks = 0
    /\ nFaults = MaxFaults
    /\ req = NoRequest

NextStale ==
    \E site \in CheckedSites :
        \/ StartCheck(site)
        \/ FetchResponse(site)
        \/ FetchError(site)
        \/ FetchAbort(site)
        \/ TryPutCurrent(site)
        \/ TryGetMarker(site)
        \/ TryGetMarkerStale(site)
        \/ TryPutHistory(site)
        \/ TryPutMarker(site)
        \/ CatchPutCurrent(site)
        \/ CatchGetMarker(site)
        \/ CatchGetMarkerStale(site)
        \/ CatchPutHistory(site)
        \/ CatchPutMarker(site)

SpecStale == InitStale /\ [][NextStale]_vars

----------------------------------------------------------------------------
\* The read handlers while a check is made: one checkSite call for a site
\* whose earlier checks have left two history entries, interleaved with any
\* number of getStatus and getHistory calls.

\* What two earlier checks have left: a 'down' entry, an 'up' entry after it,
\* and the current slot and the marker holding the later record.
MixedStore ==
    LET later == [text |-> JSONstringify(SeededData(Stamp(3))), options |-> NoOptions]
        entries == HistoryStore({2, 3}, {})
    IN  [key \in DOMAIN entries \cup {CurrentKey("main"), LastHistoryKey("main")} |->
            IF key \in DOMAIN entries THEN entries[key] ELSE later]

InitMixed ==
    /\ kv = MixedStore
    /\ now = Stamp(4)
    /\ pc = [n \in Names |-> "idle"]
    /\ start = [n \in Names |-> 0]
    /\ probe = [n \in Names |-> [kind |-> "none"]]
    /\ data = [n \in Names |-> [status |-> "none"]]
    /\ calls = [n \in Names |-> <<>>]
    /\ result = [n \in Names |-> "none"]
    /\ last = [n \in Names |-> [status |-> "none"]]
    /\ prev = [n \in Names |-> [status |-> "none"]]
    /\ fired = 0
    /\ nChecks = 0
    /\ nFaults = 0
    /\ req = NoRequest

\* The one checkSite call.
StartOnce(site) ==
    /\ nChecks = 0
    /\ StartCheck(site)

NextMixed ==
    \/ \E site \in CheckedSites :
        \/ StartOnce(site)
        \/ FetchResponse(site)
        \/ FetchError(site)
        \/ FetchAbort(site)
        \/ TryPutCurrent(site)
        \/ TryGetMarker(site)
        \/ TryPutHistory(site)
        \/ TryPutMarker(site)
        \/ CatchPutCurrent(site)
        \/ CatchGetMarker(site)
        \/ CatchPutHistory(site)
        \/ CatchPutMarker(site)
    \/ StatusRequest
    \/ StatusGet
    \/ HistoryRequest
    \/ HistoryList
    \/ HistoryGet

SpecMixed == InitMixed /\ [][NextMixed]_vars

----------------------------------------------------------------------------
\* Properties.  They are stated over the KV calls of a checkSite call
\* (calls[n], as the tests assert them on the mocked namespace) and over
\* the contents of the namespace.

TwoHours == 2 * 60 * 60 * 1000

\* The checkSite promise of the latest call for site n has resolved.
Completed(n) == pc[n] = "idle" /\ result[n] = "resolved"

\* No KV operation of the current / latest call for site n threw.
NoKVFailure(n) == \A i \in 1..Len(calls[n]) : calls[n][i].ok

\* The latest call for site n got as far as reading the marker, without a
\* KV failure: MarkerRead(n) is what the read returned.
ReadMarker(n) ==
    /\ NoKVFailure(n)
    /\ Len(calls[n]) >= 2
    /\ calls[n][2].op = "get"
MarkerRead(n) == calls[n][2].text

\* The marker read was a record (it parsed).
ReadRecord(n) == ReadMarker(n) /\ MarkerRead(n).kind = "json"

\* The calls checkSite makes with data[n].
PutCurrentCall(n) ==
    Call("put", CurrentKey(n), JSONstringify(data[n]), NoOptions, TRUE)
GetMarkerCall(n, text) ==
    Call("get", LastHistoryKey(n), text, NoOptions, TRUE)
PutHistoryCall(n) ==
    Call("put", HistoryKey(n, data[n].timestamp), JSONstringify(data[n]),
         ExpirationTtl, TRUE)
PutMarkerCall(n) ==
    Call("put", LastHistoryKey(n), JSONstringify(data[n]), NoOptions, TRUE)

\* The call for site n sampled: current, marker read, history entry, marker.
SampledCalls(n) ==
    calls[n] = <<PutCurrentCall(n), GetMarkerCall(n, MarkerRead(n)),
                 PutHistoryCall(n), PutMarkerCall(n)>>

\* The call for site n did not sample: current and marker read only.
UnsampledCalls(n) ==
    calls[n] = <<PutCurrentCall(n), GetMarkerCall(n, MarkerRead(n))>>

\* The history entry of data[n] was put by the latest call for site n.
Sampled(n) == \E i \in 1..Len(calls[n]) : calls[n][i] = PutHistoryCall(n)

\* The timestamps of the history entries of site n in the namespace.
HistoryTimestamps(n) ==
    {key[3] : key \in {k \in DOMAIN kv : k[1] = "history" /\ k[2] = n}}

\* C1: a check that finds no marker writes the history entry of its timestamp
\* and the marker, both with the record it wrote to the current slot, whatever
\* the probe's outcome.
C1_FirstCheckSamples ==
    \A n \in Names :
        (Completed(n) /\ ReadMarker(n) /\ MarkerRead(n) = Null) =>
            /\ SampledCalls(n)
            /\ KVGet(kv, CurrentKey(n)) = JSONstringify(data[n])
            /\ KVGet(kv, HistoryKey(n, data[n].timestamp)) = JSONstringify(data[n])

C1_Witness ==
    \E n \in Names :
        /\ Completed(n) /\ ReadMarker(n) /\ MarkerRead(n) = Null
        /\ probe[n].kind = "response" /\ ~probe[n].ok

\* C2: a check that finds a marker with its own status, at most two hours
\* older, writes the current slot only: no history entry, marker untouched.
C2_StableWithinIntervalWritesCurrentOnly ==
    \A n \in Names :
        (/\ Completed(n) /\ ReadRecord(n)
         /\ JSONparse(MarkerRead(n)).status = data[n].status
         /\ data[n].timestamp - JSONparse(MarkerRead(n)).timestamp <= TwoHours) =>
            /\ UnsampledCalls(n)
            /\ KVGet(kv, CurrentKey(n)) = JSONstringify(data[n])
            /\ data[n].timestamp \notin HistoryTimestamps(n)
            /\ KVGet(kv, LastHistoryKey(n)) \in {MarkerRead(n), InvalidJson}

C2_Witness ==
    \E n \in Names :
        /\ Completed(n) /\ ReadRecord(n)
        /\ probe[n].kind = "error"
        /\ JSONparse(MarkerRead(n)).status = "down"
        /\ data[n].timestamp - JSONparse(MarkerRead(n)).timestamp <= TwoHours

\* C3: a check that finds a marker with the other status writes the history
\* entry of its timestamp and overwrites the marker, however recent the marker.
C3_StatusChangeSamples ==
    \A n \in Names :
        (/\ Completed(n) /\ ReadRecord(n)
         /\ JSONparse(MarkerRead(n)).status # data[n].status) =>
            /\ SampledCalls(n)
            /\ KVGet(kv, HistoryKey(n, data[n].timestamp)) = JSONstringify(data[n])

C3_Witness ==
    \E n \in Names :
        /\ Completed(n) /\ ReadRecord(n)
        /\ probe[n].kind = "error"
        /\ JSONparse(MarkerRead(n)).status = "up"
        /\ data[n].timestamp - JSONparse(MarkerRead(n)).timestamp < TwoHours

\* C4: with a marker of the same status, the check samples exactly when its
\* timestamp is more than two hours after the marker's.
C4_SameStatusSamplesIffOverTwoHours ==
    \A n \in Names :
        (/\ Completed(n) /\ ReadRecord(n)
         /\ JSONparse(MarkerRead(n)).status = data[n].status) =>
            IF data[n].timestamp - JSONparse(MarkerRead(n)).timestamp > TwoHours
            THEN SampledCalls(n)
            ELSE UnsampledCalls(n)

C4_Witness ==
    \E n \in Names :
        /\ Completed(n) /\ ReadRecord(n)
        /\ JSONparse(MarkerRead(n)).status = data[n].status
        /\ data[n].timestamp - JSONparse(MarkerRead(n)).timestamp = TwoHours
        /\ UnsampledCalls(n)

\* C5: a marker that is not JSON is handled as a missing one: the call does
\* not fail, it goes on to write the history entry and the marker.
C5_InvalidMarkerSamples ==
    \A n \in Names :
        (ReadMarker(n) /\ MarkerRead(n) = InvalidJson) =>
            /\ result[n] # "rejected"
            /\ Len(calls[n]) = 2 =>
                   pc[n] \in {"try_put_history", "catch_put_history"}
            /\ pc[n] = "idle" =>
                   /\ Completed(n)
                   /\ SampledCalls(n)
                   /\ KVGet(kv, CurrentKey(n)) = JSONstringify(data[n])
                   /\ KVGet(kv, HistoryKey(n, data[n].timestamp))
                          = JSONstringify(data[n])

C5_Witness ==
    \E n \in Names :
        /\ Completed(n) /\ ReadMarker(n) /\ MarkerRead(n) = InvalidJson
        /\ probe[n].kind = "error"
        /\ KVGet(kv, LastHistoryKey(n)) = JSONstringify(data[n])

\* C6: when a call has resolved, the current slot holds its record; and the
\* marker is never read before the current slot has been written.
C6_CurrentWrittenFirst ==
    \A n \in Names :
        /\ Completed(n) => KVGet(kv, CurrentKey(n)) = JSONstringify(data[n])
        /\ \A i \in 1..Len(calls[n]) :
               calls[n][i].op = "get" =>
                   /\ i > 1
                   /\ calls[n][i-1].op = "put"
                   /\ calls[n][i-1].key = CurrentKey(n)
                   /\ calls[n][i-1].ok
        /\ (pc[n] \notin {"idle", "fetch"} /\ NoKVFailure(n) /\ Len(calls[n]) >= 1) =>
               calls[n][1] = PutCurrentCall(n)

C6_Witness ==
    \E n \in Names :
        /\ Completed(n) /\ ReadMarker(n) /\ UnsampledCalls(n)
        /\ probe[n].kind = "response"
        /\ KVGet(kv, LastHistoryKey(n)) # JSONstringify(data[n])

\* C7: every record a call writes has status 'up' exactly when its fetch
\* returned a response with ok = true.
C7_UpIffResponseOk ==
    \A n \in Names :
        \A i \in 1..Len(calls[n]) :
            calls[n][i].op = "put" =>
                (JSONparse(calls[n][i].text).status = "up"
                    <=> (probe[n].kind = "response" /\ probe[n].ok))

\* C8: no record written has both statusCode and error; a record built from
\* a response has statusCode only, one built from a failed probe error only.
C8_StatusCodeXorError ==
    \A n \in Names :
        \A i \in 1..Len(calls[n]) :
            calls[n][i].op = "put" =>
                LET fields == DOMAIN JSONparse(calls[n][i].text) IN
                /\ ("statusCode" \in fields) # ("error" \in fields)
                /\ "statusCode" \in fields =>
                       /\ probe[n].kind = "response"
                       /\ JSONparse(calls[n][i].text).statusCode = probe[n].status
                /\ probe[n].kind = "error" => "error" \in fields
                /\ (probe[n].kind = "response" /\ NoKVFailure(n)) =>
                       "statusCode" \in fields

C8_Witness ==
    \E n \in Names :
        /\ Completed(n) /\ NoKVFailure(n)
        /\ probe[n].kind = "error"
        /\ Sampled(n)

\* C9: a resolved check whose status differs from that of the resolved check
\* before it has written the history entry of its own timestamp and record.
C9_TransitionSampled ==
    \A n \in Names :
        (/\ Completed(n)
         /\ prev[n].status # "none"
         /\ prev[n].status # last[n].status) =>
            /\ Sampled(n)
            /\ KVGet(kv, HistoryKey(n, data[n].timestamp)) = JSONstringify(data[n])

C9_Witness ==
    \E n \in Names :
        /\ Completed(n) /\ ReadRecord(n)
        /\ prev[n].status = "up" /\ last[n].status = "down"
        /\ JSONparse(MarkerRead(n)).timestamp < prev[n].timestamp

\* The newest history entry of site n that is older than timestamp t.
EntryBefore(n, t) ==
    CHOOSE h \in HistoryTimestamps(n) :
        /\ h < t
        /\ \A g \in HistoryTimestamps(n) : g < t => g <= h

----------------------------------------------------------------------------
\* Properties of the read handlers.  They are stated over the response of the
\* call (req.response), over its KV calls (req.calls) and over the namespace.

\* getHistory has answered with its JSON response.
HistoryAnswered ==
    /\ req.handler = "getHistory"
    /\ req.pc = "done"
    /\ req.response.kind = "response"
    /\ req.response.status = 200

\* The array of the response.
HistoryBody == JSONparse(req.response.payload)

\* The history keys of a site whose text decodes, and the records they hold.
DecodableKeys(name) ==
    {key \in KVList(kv, HistoryPrefix(name)) : ~JSONparseThrows(kv[key].text)}
StoredRecords(name) == {JSONparse(kv[key].text) : key \in DecodableKeys(name)}

\* The order in which the keys of the call were read.
ReadOrder == [i \in 1..(Len(req.calls) - 1) |-> req.calls[i + 1].key]

\* C11: whatever the order in which list enumerated the keys, the records of
\* a getHistory response are decoded history entries of the requested site
\* and are sorted strictly descending by timestamp.
C11_HistorySortedDescending ==
    HistoryAnswered =>
        /\ \A i \in 1..Len(HistoryBody) :
              HistoryBody[i] \in StoredRecords(req.siteName.value)
        /\ \A i \in 1..(Len(HistoryBody) - 1) :
              HistoryBody[i].timestamp > HistoryBody[i + 1].timestamp

\* A response of several records whose keys were enumerated oldest first.
C11_Witness ==
    /\ HistoryAnswered
    /\ Len(HistoryBody) >= 3
    /\ ReadOrder[1][3] < ReadOrder[2][3]
    /\ ReadOrder[2][3] < ReadOrder[3][3]

\* The records of the response, as a set.
HistoryBodySet == {HistoryBody[i] : i \in 1..Len(HistoryBody)}

\* C12: of N decodable history entries of the requested site a getHistory
\* response holds all N when N < 100 and exactly 100 when N >= 100, and then
\* every record it holds is newer than every record it leaves out: the
\* array is cut after it is sorted.
C12_NewestHundred ==
    HistoryAnswered =>
        LET stored == StoredRecords(req.siteName.value)
            N == Cardinality(stored)
        IN  /\ HistoryBodySet \subseteq stored
            /\ Cardinality(HistoryBodySet) = Len(HistoryBody)
            /\ N < HistoryLimit => Len(HistoryBody) = N
            /\ N >= HistoryLimit => Len(HistoryBody) = HistoryLimit
            /\ \A left \in stored \ HistoryBodySet : \A kept \in HistoryBodySet :
                  kept.timestamp > left.timestamp

\* A response cut to 100 records of more, the newest of which were
\* enumerated last.
C12_Witness ==
    /\ HistoryAnswered
    /\ Cardinality(StoredRecords(req.siteName.value)) > HistoryLimit
    /\ Len(HistoryBody) = HistoryLimit
    /\ ReadOrder[1][3] = Stamp(1)

\* The history keys of a site whose text does not decode.
CorruptKeys(name) == KVList(kv, HistoryPrefix(name)) \ DecodableKeys(name)

\* The i-th record of the response is the i-th newest decodable entry.
NewestFirst(name) ==
    \A i \in 1..Len(HistoryBody) :
        /\ HistoryBody[i] \in StoredRecords(name)
        /\ Cardinality({r \in StoredRecords(name) :
                           r.timestamp > HistoryBody[i].timestamp}) = i - 1

\* C13 as claimed: with exactly one of the N history entries of the site not
\* decoding, getHistory answers 200 with exactly N-1 records, the decodable
\* ones, newest first.
C13_OneCorruptLeavesAllOthers ==
    LET name == req.siteName.value
        N == Cardinality(KVList(kv, HistoryPrefix(name)))
    IN  HistoryAnswered /\ Cardinality(CorruptKeys(name)) = 1 =>
            /\ Len(HistoryBody) = N - 1
            /\ NewestFirst(name)

\* C13 amended: with exactly one of the N history entries of the site not
\* decoding, getHistory answers 200 with the decodable entries newest first,
\* cut to 100: N-1 records when N-1 <= 100, the 100 newest otherwise.
C13_OneCorruptSkipped ==
    LET name == req.siteName.value
        N == Cardinality(KVList(kv, HistoryPrefix(name)))
    IN  HistoryAnswered /\ Cardinality(CorruptKeys(name)) = 1 =>
            /\ Len(HistoryBody) = IF N - 1 <= HistoryLimit THEN N - 1
                                  ELSE HistoryLimit
            /\ NewestFirst(name)

\* A response of several records to a call that read the corrupt entry
\* neither first nor last.
C13_Witness ==
    /\ HistoryAnswered
    /\ Cardinality(CorruptKeys(req.siteName.value)) = 1
    /\ Len(HistoryBody) >= 2
    /\ \E i \in 2..(Len(ReadOrder) - 1) :
          ReadOrder[i] \in CorruptKeys(req.siteName.value)

\* getStatus has answered with its JSON response.
StatusAnswered ==
    /\ req.handler = "getStatus"
    /\ req.pc = "done"
    /\ req.response.kind = "response"

\* The mapping of the response.
StatusBody == JSONparse(req.response.payload)

\* The current slot of a site is absent or holds a text that is not JSON.
NoCurrent(name) ==
    \/ CurrentKey(name) \notin DOMAIN kv
    \/ JSONparseThrows(kv[CurrentKey(name)].text)

\* C14: the mapping of a getStatus response has exactly the names of
\* MONITORED_SITES as its keys; a site whose current slot is absent or
\* undecodable maps to null, and every other site to the record of its slot.
C14_StatusPerSite ==
    StatusAnswered =>
        /\ req.response.status = 200
        /\ DOMAIN StatusBody =
              {MONITORED_SITES[i].name : i \in 1..Len(MONITORED_SITES)}
        /\ \A name \in DOMAIN StatusBody :
              IF NoCurrent(name)
              THEN StatusBody[name] = Null
              ELSE StatusBody[name] = JSONparse(kv[CurrentKey(name)].text)

\* A response on a namespace where main has no slot, dashboard has one that
\* is not JSON, and api and cdn have different records.
C14_Witness ==
    /\ StatusAnswered
    /\ CurrentKey("main") \notin DOMAIN kv
    /\ KVGet(kv, CurrentKey("dashboard")) = InvalidJson
    /\ ~NoCurrent("api")
    /\ ~NoCurrent("cdn")
    /\ StatusBody["api"].status = "up"
    /\ StatusBody["cdn"].status = "down"

\* C15: a getHistory call whose site parameter is null or the empty string
\* is answered at once with status 400 and the body 'Site parameter
\* required', and makes no KV call.
C15_MissingSiteIsBadRequest ==
    req.handler = "getHistory" /\ (req.siteName = Null \/ req.siteName = Str("")) =>
        /\ req.pc = "done"
        /\ req.response.kind = "response"
        /\ req.response.status = 400
        /\ req.response.payload = [kind |-> "text", raw |-> "Site parameter required"]
        /\ req.calls = <<>>

\* A getHistory call with ?site= (the empty string) answered with 400.
C15_Witness ==
    /\ req.handler = "getHistory"
    /\ req.siteName = Str("")
    /\ req.response.kind = "response"
    /\ req.response.status = 400

\* C17: a get or list that fails during getStatus or getHistory is the last
\* KV call of the handler, whose promise rejects with the error of the
\* call: no response is built from what was read before.
C17_ReadFailureRejects ==
    \A i \in 1..Len(req.calls) :
        ~req.calls[i].ok =>
            /\ i = Len(req.calls)
            /\ req.calls[i].op \in {"get", "list"}
            /\ req.pc = "done"
            /\ req.response = Rejected(KVError)

\* A getStatus call that had read two slots when its third get failed.
C17_Witness ==
    /\ req.handler = "getStatus"
    /\ Len(req.calls) = 3
    /\ ~req.calls[3].ok
    /\ req.response.kind = "rejected"

----------------------------------------------------------------------------
\* Properties of checkSite under KV failures.

\* C16 as claimed: a KV operation that fails during checkSite is the last KV
\* operation of the call, and the promise of the call rejects.
C16_KVFailureRejects ==
    \A n \in Names : \A i \in 1..Len(calls[n]) :
        ~calls[n][i].ok =>
            /\ i = Len(calls[n])
            /\ result[n] = "rejected"

----------------------------------------------------------------------------
\* Properties of the scheduled handler.

\* C18 as claimed: an invocation of scheduled starts one check for every
\* site of MONITORED_SITES, and its promise is settled only when every one of
\* these checks has resolved or rejected.
C18_CycleSettlesAfterAllChecks ==
    /\ nChecks > 0 => \A n \in AllNames : result[n] # "none"
    /\ PromiseAll(result) \in {"resolved", "rejected"} =>
          \A n \in AllNames : result[n] \in {"resolved", "rejected"}

----------------------------------------------------------------------------
\* Termination of checkSite.

\* The fetch of the latest call for site n threw (transport error or abort).
ProbeFailed(n) == probe[n].kind = "error"

\* The latest call for site n has put to the current slot a 'down' record that
\* carries the message of the thrown error and no status code.
RecordedDown(n) ==
    /\ Len(calls[n]) >= 1
    /\ calls[n][1] = PutCurrentCall(n)
    /\ data[n].status = "down"
    /\ data[n].error = probe[n].message
    /\ "statusCode" \notin DOMAIN data[n]

\* C19: every checkSite call that has sent its request settles, whether or
\* not the site ever answers; if none of its KV operations failed it
\* resolves, and if its fetch threw or was aborted it has recorded a 'down'
\* record with the error and without a status code.
C19_ProbeFailureCompletes ==
    \A n \in Names :
        (pc[n] = "fetch") ~>
            (/\ pc[n] = "idle"
             /\ NoKVFailure(n) =>
                   /\ result[n] = "resolved"
                   /\ ProbeFailed(n) => RecordedDown(n))

\* A call whose request was aborted by the timer has resolved.
C19_Witness ==
    \E n \in Names :
        /\ Completed(n)
        /\ NoKVFailure(n)
        /\ ProbeFailed(n)
        /\ probe[n].message = AbortError
        /\ RecordedDown(n)

----------------------------------------------------------------------------
\* The frame of the read handlers.

\* The namespace after the successful puts of a sequence of KV calls.
RECURSIVE AfterPuts(_, _)
AfterPuts(s, cs) ==
    IF cs = <<>> THEN s
    ELSE LET c == Head(cs) IN
         AfterPuts(IF c.op = "put" /\ c.ok
                   THEN KVPut(s, c.key, c.text, c.options) ELSE s,
                   Tail(cs))

\* C20: the KV calls of getStatus and getHistory are gets and lists only,
\* and however the calls are interleaved with a check, the namespace holds
\* what it held before, changed by the puts of the check alone.
C20_ReadersNeverWrite ==
    /\ \A i \in 1..Len(req.calls) : req.calls[i].op \in {"get", "list"}
    /\ \A n \in Names : kv = AfterPuts(MixedStore, calls[n])

\* A getHistory call that listed the keys before the check put its entry and
\* was answered after it.
C20_Witness ==
    \E n \in Names :
        /\ HistoryAnswered
        /\ Len(HistoryBody) = 2
        /\ Cardinality(KVList(kv, HistoryPrefix(n))) = 3
        /\ req.siteName = Str(n)

----------------------------------------------------------------------------
\* Properties of the history entries and of the marker.

----------------------------------------------------------------------------
\* getHistory and the listing.

\* C22 as claimed: when list answers in pages, the response of getHistory is
\* still made of all the decodable history entries of the site: the newest
\* 100 of them, or all of them when they are fewer.
C22_PagedListCoversAll ==
    HistoryAnswered =>
        LET name == req.siteName.value
            N == Cardinality(DecodableKeys(name))
        IN  /\ NewestFirst(name)
            /\ Len(HistoryBody) = IF N < HistoryLimit THEN N ELSE HistoryLimit

\* C23 as claimed: a history entry, once put, is never put again with another
\* record: the key of every successful history put of a call still holds the
\* text that was put.
C23_HistoryNeverUpdated ==
    \A n \in Names : \A i \in 1..Len(calls[n]) :
        (/\ calls[n][i].op = "put"
         /\ calls[n][i].ok
         /\ calls[n][i].key[1] = "history") =>
            KVGet(kv, calls[n][i].key) = calls[n][i].text

\* The marker of site n holds a record.
MarkerHoldsRecord(n) == ~Falsy(KVGet(kv, LastHistoryKey(n))) /\
                        ~JSONparseThrows(KVGet(kv, LastHistoryKey(n)))
MarkerRecord(n) == JSONparse(KVGet(kv, LastHistoryKey(n)))

\* The history entry of the marker's timestamp holds the marker's record.
MarkerHasEntry(n) ==
    KVGet(kv, HistoryKey(n, MarkerRecord(n).timestamp)) =
        JSONstringify(MarkerRecord(n))

\* No history entry of site n is newer than the marker's record.
MarkerIsNewest(n) ==
    \A t \in HistoryTimestamps(n) : t <= MarkerRecord(n).timestamp

\* The call for site n has put its history entry and not yet its marker.
BetweenHistoryAndMarker(n) == pc[n] \in {"try_put_marker", "catch_put_marker"}

----------------------------------------------------------------------------
\* Concurrent checks.

\* The namespace a call would see after its own first i KV calls, had it
\* started on an empty namespace and run alone.
Alone(n, i) == AfterPuts(<<>>, SubSeq(calls[n], 1, i))

\* C25: in an invocation of scheduled every KV call of the check of a site is
\* made on current_<site>, last_history_<site> or history_<site>_<t>; every
\* get returns what the check itself has put before, and the namespace holds
\* under the keys of each site what the puts of its check alone produce,
\* however the checks interleave and whichever of them fail.
C25_ChecksTouchDisjointKeys ==
    \A n \in AllNames :
        /\ \A i \in 1..Len(calls[n]) :
              /\ calls[n][i].key[1] \in {"current", "last_history", "history"}
              /\ calls[n][i].key[2] = n
              /\ (calls[n][i].op = "get" /\ calls[n][i].ok) =>
                    calls[n][i].text = KVGet(Alone(n, i - 1), calls[n][i].key)
        /\ \A key \in DOMAIN kv :
              key[2] = n =>
                  /\ key \in DOMAIN Alone(n, Len(calls[n]))
                  /\ kv[key] = Alone(n, Len(calls[n]))[key]
        /\ DOMAIN Alone(n, Len(calls[n])) \subseteq DOMAIN kv

\* The check of api has rejected, the three others have resolved, each with
\* its current slot, its history entry and its marker written.
C25_Witness ==
    /\ result["api"] = "rejected"
    /\ \A n \in AllNames \ {"api"} :
          /\ result[n] = "resolved"
          /\ Len(calls[n]) = 4
          /\ {CurrentKey(n), LastHistoryKey(n), HistoryKey(n, start[n])}
                \subseteq DOMAIN kv

----------------------------------------------------------------------------
\* The sampler on an eventually-consistent namespace.

\* C26 as claimed: even when the get of the marker returns a stale value, a
\* resolved check whose status differs from that of the resolved check before
\* it leaves the history entry of its own timestamp in the namespace.
C26_TransitionSampledDespiteStaleRead ==
    \A n \in Names :
        (/\ Completed(n)
         /\ prev[n].status \in {"up", "down"}
         /\ last[n].status # prev[n].status) =>
            HistoryKey(n, start[n]) \in DOMAIN kv

----------------------------------------------------------------------------
\* The records of one check.

\* C27 as claimed: every successful put of a call writes one and the same
\* record, whose timestamp is the one read at the start of the call, and the
\* key of the history entry ends with that timestamp.
C27_OneRecordOneTimestamp ==
    \A n \in Names : \A i \in 1..Len(calls[n]) :
        (calls[n][i].op = "put" /\ calls[n][i].ok) =>
            /\ JSONparse(calls[n][i].text).timestamp = start[n]
            /\ calls[n][i].key[1] = "history" => calls[n][i].key[3] = start[n]
            /\ \A j \in 1..Len(calls[n]) :
                  (calls[n][j].op = "put" /\ calls[n][j].ok) =>
                      calls[n][j].text = calls[n][i].text

\* ---------------------------------------------------------------------------
\* Marker and current slot
\* ---------------------------------------------------------------------------

\* The current slot of a target holds a record.
CurrentHoldsRecord(n) ==
    /\ ~Falsy(KVGet(kv, CurrentKey(n)))
    /\ ~JSONparseThrows(KVGet(kv, CurrentKey(n)))

\* C28: after every completed check whose store operations all succeeded, and
\* until the marker is overwritten from outside, the marker holds a record
\* whose status is the status of the record in the current slot, whether or
\* not the check sampled; its timestamp is never later than that of the
\* current slot.
C28_MarkerStatusIsCurrentStatus ==
    \A n \in Names :
        (Completed(n) /\ NoKVFailure(n) /\ KVGet(kv, LastHistoryKey(n)) # InvalidJson) =>
            /\ CurrentHoldsRecord(n)
            /\ MarkerHoldsRecord(n)
            /\ MarkerRecord(n).status = JSONparse(KVGet(kv, CurrentKey(n))).status
            /\ MarkerRecord(n).timestamp <= JSONparse(KVGet(kv, CurrentKey(n))).timestamp

\* A completed check that did not sample: the marker lags the current slot in
\* timestamp and agrees with it in status.
C28_Witness ==
    \E n \in Names :
        /\ Completed(n) /\ NoKVFailure(n)
        /\ ~Sampled(n)
        /\ MarkerHoldsRecord(n)
        /\ CurrentHoldsRecord(n)
        /\ MarkerRecord(n).timestamp < JSONparse(KVGet(kv, CurrentKey(n))).timestamp
        /\ MarkerRecord(n).status = JSONparse(KVGet(kv, CurrentKey(n))).status

\* ---------------------------------------------------------------------------
\* Write volume
\* ---------------------------------------------------------------------------

\* checkSite on a namespace that only checkSite writes: the checks of Spec
\* from the empty namespace, KV failures included, and nothing overwriting
\* the marker from outside.
NextSampler ==
    \E site \in CheckedSites :
        \/ StartCheck(site)
        \/ FetchResponse(site)
        \/ FetchError(site)
        \/ FetchAbort(site)
        \/ TryPutCurrent(site)
        \/ TryGetMarker(site)
        \/ TryPutHistory(site)
        \/ TryPutMarker(site)
        \/ CatchPutCurrent(site)
        \/ CatchGetMarker(site)
        \/ CatchPutHistory(site)
        \/ CatchPutMarker(site)

SpecSampler == Init /\ [][NextSampler]_vars

\* The record of the history entry of site n at timestamp t.
HistoryRecord(n, t) == JSONparse(KVGet(kv, HistoryKey(n, t)))

\* The history entries of site n at g < h are adjacent in timestamp order.
Adjacent(n, g, h) ==
    /\ g \in HistoryTimestamps(n)
    /\ h \in HistoryTimestamps(n)
    /\ g < h
    /\ \A t \in HistoryTimestamps(n) : ~(g < t /\ t < h)

\* Two adjacent history entries differ in status or are more than two hours
\* apart.
SpacedOrChanged(n) ==
    \A g \in HistoryTimestamps(n) : \A h \in HistoryTimestamps(n) :
        Adjacent(n, g, h) =>
            \/ HistoryRecord(n, g).status # HistoryRecord(n, h).status
            \/ h - g > TwoHours

NamedSites == {MONITORED_SITES[1], [name |-> "main_eu", timeout |-> 10000]}
SiteNames == {site.name : site \in NamedSites}

InitNamed ==
    /\ kv = <<>>
    /\ now = 0
    /\ pc = [n \in SiteNames |-> "idle"]
    /\ start = [n \in SiteNames |-> 0]
    /\ probe = [n \in SiteNames |-> [kind |-> "none"]]
    /\ data = [n \in SiteNames |-> [status |-> "none"]]
    /\ calls = [n \in SiteNames |-> <<>>]
    /\ result = [n \in SiteNames |-> "none"]
    /\ last = [n \in SiteNames |-> [status |-> "none"]]
    /\ prev = [n \in SiteNames |-> [status |-> "none"]]
    /\ fired = 0
    /\ nChecks = 0
    /\ nFaults = MaxFaults
    /\ req = NoRequest

\* The sites are checked one call after the other, each of them once; no KV
\* operation fails.
StartNamed(site) ==
    /\ \A n \in SiteNames : pc[n] = "idle"
    /\ result[site.name] = "none"
    /\ StartCheck(site)

\* The checks, and getHistory requests between and during them.
NextNamed ==
    \/ \E site \in NamedSites :
        \/ StartNamed(site)
        \/ FetchResponse(site)
        \/ FetchError(site)
        \/ FetchAbort(site)
        \/ TryPutCurrent(site)
        \/ TryGetMarker(site)
        \/ TryPutHistory(site)
        \/ TryPutMarker(site)
        \/ CatchPutCurrent(site)
        \/ CatchGetMarker(site)
        \/ CatchPutHistory(site)
        \/ CatchPutMarker(site)
    \/ HistoryRequest
    \/ HistoryList
    \/ HistoryGet

SpecNamed == InitNamed /\ [][NextNamed]_vars

\* The records written as history entries of the site named exactly name.
EntriesOf(name) ==
    {JSONparse(kv[key].text) :
        key \in {k \in DOMAIN kv : /\ k[1] = "history"
                                   /\ k[2] = name
                                   /\ ~JSONparseThrows(kv[k].text)}}

====
